---------------------------- MODULE Spec2Model ----------------------------
(***************************************************************************)
(* A model of pymatcalc: the MatCalcAPI wrapper around the mc_core shared  *)
(* library (src/pymatcalc/api.py) and the suppressing_stdout context       *)
(* manager (src/pymatcalc/utils.py, src/pymatcalc6/utils.py).              *)
(*                                                                         *)
(* Text is a sequence of Unicode code points, a byte string a sequence of  *)
(* byte values, so that str.encode("utf-8"), f-string formatting and       *)
(* glob matching are computed and not assumed.                             *)
(*                                                                         *)
(* Three specifications share the module:                                  *)
(*   SpecSession  the calls on one constructed MatCalcAPI object           *)
(*   SpecLocator  MatCalcAPI.__init__ and _find_mc_core_library_file       *)
(*   SpecStdout   suppressing_stdout over the process's descriptor table   *)
(***************************************************************************)
EXTENDS Integers, Sequences, FiniteSets

VARIABLES
    \* ---- SpecSession
    application_directory,  \* self.application_directory, a path
    call,                   \* the last wrapper call: inputs, native calls, outcome
    state,                  \* "Uninitialized" / "Initialized", as the caller sees it
    nCalls,                 \* number of wrapper calls made so far
    nRaised,                \* number of those that raised
    \* ---- SpecLocator
    platform,               \* sys.platform
    dirs,                   \* the directories that exist (absolute paths)
    files,                  \* size of each candidate file, Absent when missing
    cwd,                    \* the process working directory
    ctor,                   \* the last MatCalcAPI(...) construction
    \* ---- SpecStdout
    STDOUT_FILENO,          \* module globals of utils.py
    STDOUT_DUPLICATE,
    fds,                    \* descriptor table: fd -> stream or "closed"
    scopes,                 \* stack of active suppressing_stdout scopes
    lastEnter,              \* what the last `with suppressing_stdout():` entry did
    lastExit,               \* what the last scope exit did
    lastWrite               \* the last write to standard output

sessionVars == <<application_directory, call, state, nCalls, nRaised>>
locatorVars == <<platform, dirs, files, cwd, ctor>>
stdoutVars  == <<STDOUT_FILENO, STDOUT_DUPLICATE, fds, scopes, lastEnter,
                 lastExit, lastWrite>>
vars == <<sessionVars, locatorVars, stdoutVars>>

----------------------------------------------------------------------------
(* Bounds of the model.                                                    *)

MaxCalls == 3      \* wrapper calls on one session
MaxSize  == 3      \* file sizes range over 1..MaxSize
MaxDepth == 3      \* nesting depth of suppressing_stdout scopes
MaxFd    == 4      \* descriptors 0..MaxFd

----------------------------------------------------------------------------
(* Text.                                                                   *)

SetWorkingDirectoryText == <<115, 101, 116, 45, 119, 111, 114, 107, 105, 110, 103, 45, 100, 105, 114, 101, 99, 116, 111, 114, 121, 32, 46, 47>>  \* "set-working-directory ./"
SetApplicationDirectoryText == <<115, 101, 116, 45, 97, 112, 112, 108, 105, 99, 97, 116, 105, 111, 110, 45, 100, 105, 114, 101, 99, 116, 111, 114, 121, 32>>  \* "set-application-directory "
ErrNrText == <<69, 114, 114, 32, 110, 114, 32>>  \* "Err nr "
WhileExecutingText == <<32, 119, 104, 105, 108, 101, 32, 101, 120, 101, 99, 117, 116, 105, 110, 103, 32, 39>>  \* " while executing '"
WhileCalculatingText == <<32, 119, 104, 105, 108, 101, 32, 99, 97, 108, 99, 117, 108, 97, 116, 105, 110, 103, 32, 101, 113, 117, 105, 108, 105, 98, 114, 105, 117, 109>>  \* " while calculating equilibrium"
EnterCompositionX == <<101, 110, 116, 101, 114, 45, 99, 111, 109, 112, 111, 115, 105, 116, 105, 111, 110, 32, 88, 32>>  \* "enter-composition X "
EnterCompositionW == <<101, 110, 116, 101, 114, 45, 99, 111, 109, 112, 111, 115, 105, 116, 105, 111, 110, 32, 87, 32>>  \* "enter-composition W "
EnterCompositionU == <<101, 110, 116, 101, 114, 45, 99, 111, 109, 112, 111, 115, 105, 116, 105, 111, 110, 32, 85, 32>>  \* "enter-composition U "
QuoteText == <<39>>   \* "'"
EqualsText == <<61>>  \* "="
SlashText == <<47>>   \* "/"
DotText == <<46>>     \* "."
MinusText == <<45>>   \* "-"

\* The decimal digits of a natural number.
RECURSIVE NatToText(_)
NatToText(n) ==
    IF n < 10 THEN <<48 + n>>
    ELSE NatToText(n \div 10) \o <<48 + (n % 10)>>

\* str(int), as an f-string formats an integer.
IntToText(n) == IF n < 0 THEN MinusText \o NatToText(-n) ELSE NatToText(n)

\* The UTF-8 bytes of one code point (below 0x10000, not a surrogate).
Utf8Bytes(cp) ==
    IF cp < 128 THEN <<cp>>
    ELSE IF cp < 2048 THEN <<192 + (cp \div 64), 128 + (cp % 64)>>
    ELSE <<224 + (cp \div 4096), 128 + ((cp \div 64) % 64), 128 + (cp % 64)>>

\* str.encode("utf-8")
RECURSIVE Utf8Encode(_)
Utf8Encode(s) ==
    IF s = <<>> THEN <<>>
    ELSE Utf8Bytes(Head(s)) \o Utf8Encode(Tail(s))

\* n copies of the character "0"
RECURSIVE Zeros(_)
Zeros(n) == IF n <= 0 THEN <<>> ELSE <<48>> \o Zeros(n - 1)

\* The characters of a sequence of decimal digits.
DigitsText(ds) == [i \in 1..Len(ds) |-> 48 + ds[i]]

\* A float is given by the shortest digit string that round-trips (digits,
\* first digit nonzero unless the value is zero) and the position of the
\* decimal point: value = 0.d1d2... * 10^decpt.  f"{value}" is repr(value):
\* exponent notation when decpt <= -4 or decpt > 16, with an exponent of at
\* least two digits.
FloatRepr(v) ==
    LET ds == v.digits
        n  == Len(ds)
        dp == v.decpt
        e  == dp - 1
        frac == IF n > 1 THEN DotText \o DigitsText(SubSeq(ds, 2, n)) ELSE <<>>
        expo == (IF e < 0 THEN MinusText ELSE <<43>>)
                \o (IF (IF e < 0 THEN -e ELSE e) < 10 THEN <<48>> ELSE <<>>)
                \o NatToText(IF e < 0 THEN -e ELSE e)
        body ==
            IF dp <= -4 \/ dp > 16
            THEN DigitsText(<<ds[1]>>) \o frac \o <<101>> \o expo
            ELSE IF dp <= 0
            THEN <<48>> \o DotText \o Zeros(-dp) \o DigitsText(ds)
            ELSE IF dp < n
            THEN DigitsText(SubSeq(ds, 1, dp)) \o DotText
                 \o DigitsText(SubSeq(ds, dp + 1, n))
            ELSE DigitsText(ds) \o Zeros(dp - n) \o DotText \o <<48>>
    IN  (IF v.neg THEN MinusText ELSE <<>>) \o body

\* Whether text sub occurs in text s.
Contains(sub, s) ==
    \E i \in 0..(Len(s) - Len(sub)) : SubSeq(s, i + 1, i + Len(sub)) = sub

\* Whether text s starts with text p.
StartsWith(s, p) == Len(p) <= Len(s) /\ SubSeq(s, 1, Len(p)) = p

----------------------------------------------------------------------------
(* Paths.  A path is [abs, parts]: parts are the names after the root      *)
(* (absolute) or after the current directory (relative); Path(".") has no  *)
(* parts.                                                                  *)

RECURSIVE JoinParts(_)
JoinParts(parts) ==
    IF parts = <<>> THEN <<>>
    ELSE IF Len(parts) = 1 THEN parts[1]
    ELSE parts[1] \o SlashText \o JoinParts(Tail(parts))

\* str(path)
PathStr(p) ==
    IF p.abs THEN SlashText \o JoinParts(p.parts)
    ELSE IF p.parts = <<>> THEN DotText
    ELSE JoinParts(p.parts)

\* The absolute path a path denotes while the working directory is wd.
Resolve(wd, p) ==
    IF p.abs THEN p ELSE [abs |-> TRUE, parts |-> wd.parts \o p.parts]

----------------------------------------------------------------------------
(* The session: calls on one MatCalcAPI object.                            *)

\* Return values of the native entry points.
RetCodes == {0, 17, -1}            \* c_int results
Doubles  == {0, 5}                 \* c_double results

NoOutcome == [kind |-> "none", type |-> "", msg |-> <<>>, hasValue |-> FALSE, value |-> 0]
ReturnNone == [kind |-> "return", type |-> "", msg |-> <<>>, hasValue |-> FALSE, value |-> 0]
ReturnValue(x) == [kind |-> "return", type |-> "", msg |-> <<>>, hasValue |-> TRUE, value |-> x]
Raise(t, m) == [kind |-> "raise", type |-> t, msg |-> m, hasValue |-> FALSE, value |-> 0]

\* One invocation of a native entry point.
Native(fn, args, ret) == [fn |-> fn, args |-> args, ret |-> ret]

\* The result of a wrapper call: the native invocations it made, in order,
\* and how it ended.
Result(native, outcome) == [native |-> native, outcome |-> outcome]

\* f"Err nr {error_code} while executing '{cmd}'"
CommandErrorText(error_code, cmd) ==
    ErrNrText \o IntToText(error_code) \o WhileExecutingText \o cmd \o QuoteText

\* f"Err nr {error_code} while calculating equilibrium"
EquilibriumErrorText(error_code) ==
    ErrNrText \o IntToText(error_code) \o WhileCalculatingText


\* MatCalcAPI.init: three native calls whose results are not looked at.
InitResult(appdir, ok, rc1, rc2) ==
    Result(<<Native("MCC_InitializeExternalConstChar",
                    <<Utf8Encode(PathStr(appdir)), TRUE>>, ok),
             Native("MCCOL_ProcessCommandLineInput",
                    <<Utf8Encode(SetWorkingDirectoryText)>>, rc1),
             Native("MCCOL_ProcessCommandLineInput",
                    <<Utf8Encode(SetApplicationDirectoryText \o PathStr(appdir))>>,
                    rc2)>>,
           ReturnNone)

\* A retry on failure, which the wrapper does not do.
ExecuteCommandRetrying(cmd, error_code) ==
    LET one == Native("MCCOL_ProcessCommandLineInput", <<Utf8Encode(cmd)>>, error_code)
    IN  Result(IF error_code # 0 THEN <<one, one>> ELSE <<one>>,
               IF error_code # 0
               THEN Raise("RuntimeError", CommandErrorText(error_code, cmd))
               ELSE ReturnNone)

\* MatCalcAPI.execute_command
ExecuteCommandResult(cmd, error_code) ==
    Result(<<Native("MCCOL_ProcessCommandLineInput", <<Utf8Encode(cmd)>>, error_code)>>,
           IF error_code # 0
           THEN Raise("RuntimeError", CommandErrorText(error_code, cmd))
           ELSE ReturnNone)

\* execute_command_new_coline routed through execute_command's entry point.
ExecuteCommandNewColineSameEntry(cmd, error_code) ==
    ExecuteCommandResult(cmd, error_code)

\* MatCalcAPI.execute_command_new_coline
ExecuteCommandNewColineResult(cmd, error_code) ==
    Result(<<Native("MCCOL_ProcessCommandLineInputNewColine", <<Utf8Encode(cmd)>>,
                    error_code)>>,
           IF error_code # 0
           THEN Raise("RuntimeError", CommandErrorText(error_code, cmd))
           ELSE ReturnNone)

\* MatCalcAPI.calculate_equilibrium
CalculateEquilibriumResult(error_code) ==
    Result(<<Native("MCC_CalcEquilibrium", <<FALSE, 0>>, error_code)>>,
           IF error_code # 0
           THEN Raise("RuntimeError", EquilibriumErrorText(error_code))
           ELSE ReturnNone)

\* MatCalcAPI.set_temperature_kelvin: the native result is dropped.
SetTemperatureKelvinResult(temperature_kelvin, ret) ==
    Result(<<Native("MCC_SetTemperature", <<temperature_kelvin, FALSE>>, ret)>>,
           ReturnNone)

\* MatCalcAPI.get_variable: the native result is returned as it is.
GetVariableResult(variable, ret) ==
    Result(<<Native("MCC_GetMCVariable", <<Utf8Encode(variable)>>, ret)>>,
           ReturnValue(ret))

\* MatCalcAPI.set_element_mole_fraction
SetElementMoleFractionResult(element_symbol, value, error_code) ==
    ExecuteCommandResult(
        EnterCompositionX \o element_symbol \o EqualsText \o FloatRepr(value),
        error_code)

\* The weight-fraction setter with the mole-fraction mode letter.
SetElementWeightFractionAsMole(element_symbol, value, error_code) ==
    SetElementMoleFractionResult(element_symbol, value, error_code)

\* MatCalcAPI.set_element_weight_fraction
SetElementWeightFractionResult(element_symbol, value, error_code) ==
    ExecuteCommandResult(
        EnterCompositionW \o element_symbol \o EqualsText \o FloatRepr(value),
        error_code)

\* MatCalcAPI.set_element_site_fraction
SetElementSiteFractionResult(element_symbol, value, error_code) ==
    ExecuteCommandResult(
        EnterCompositionU \o element_symbol \o EqualsText \o FloatRepr(value),
        error_code)

----------------------------------------------------------------------------
(* Inputs of the session's calls.                                          *)

SelectElementC == <<115, 101, 108, 101, 99, 116, 45, 101, 108, 101, 109, 101, 110, 116, 32, 67>>  \* "select-element C"
CafeText == <<233>>  \* "é", a command that is not ASCII
ElementC == <<67>>        \* "C"
ElementMn == <<77, 110>>  \* "Mn"
VariableMuC == <<77, 85, 36, 67>>  \* "MU$C"
DirA == <<97>>  \* a directory named "a"

CmdInputs == {SelectElementC, CafeText, <<>>}
ElementInputs == {ElementC, ElementMn}
\* 0.002, 1e-05, 12.5 and 1200.0
Float0002 == [neg |-> FALSE, digits |-> <<2>>, decpt |-> -2]
Float1em05 == [neg |-> FALSE, digits |-> <<1>>, decpt |-> -4]
Float125 == [neg |-> FALSE, digits |-> <<1, 2, 5>>, decpt |-> 2]
Float1200 == [neg |-> FALSE, digits |-> <<1, 2>>, decpt |-> 4]
ValueInputs == {Float0002, Float1em05, Float125}
TemperatureInputs == {Float1200}
VariableInputs == {VariableMuC}
AppDirInputs == {[abs |-> TRUE, parts |-> <<DirA>>], [abs |-> FALSE, parts |-> <<>>]}

NoCall == [op |-> "none", args |-> <<>>, native |-> <<>>, outcome |-> NoOutcome]

SessionInit ==
    /\ application_directory \in AppDirInputs
    /\ call = NoCall
    /\ state = "Uninitialized"
    /\ nCalls = 0
    /\ nRaised = 0

\* A wrapper call op(args) that made the native calls of r and ended as r says.
Record(op, args, r) ==
    /\ nCalls < MaxCalls
    /\ call' = [op |-> op, args |-> args, native |-> r.native, outcome |-> r.outcome]
    /\ nCalls' = nCalls + 1
    /\ nRaised' = IF r.outcome.kind = "raise" THEN nRaised + 1 ELSE nRaised
    /\ UNCHANGED application_directory
    /\ UNCHANGED <<locatorVars, stdoutVars>>

\* mc.init(): the caller who sees init() return holds an initialized session.
Init_ ==
    \E ok \in BOOLEAN, rc1 \in RetCodes, rc2 \in RetCodes :
        LET r == InitResult(application_directory, ok, rc1, rc2)
        IN  /\ Record("init", <<>>, r)
            /\ state' = IF r.outcome.kind = "return" THEN "Initialized" ELSE state

ExecuteCommand ==
    \E cmd \in CmdInputs, rc \in RetCodes :
        /\ Record("execute_command", <<cmd>>, ExecuteCommandResult(cmd, rc))
        /\ UNCHANGED state

ExecuteCommandNewColine ==
    \E cmd \in CmdInputs, rc \in RetCodes :
        /\ Record("execute_command_new_coline", <<cmd>>,
                  ExecuteCommandNewColineResult(cmd, rc))
        /\ UNCHANGED state

CalculateEquilibrium ==
    \E rc \in RetCodes :
        /\ Record("calculate_equilibrium", <<>>, CalculateEquilibriumResult(rc))
        /\ UNCHANGED state

SetTemperatureKelvin ==
    \E t \in TemperatureInputs, ret \in Doubles :
        /\ Record("set_temperature_kelvin", <<t>>, SetTemperatureKelvinResult(t, ret))
        /\ UNCHANGED state

GetVariable ==
    \E v \in VariableInputs, ret \in Doubles :
        /\ Record("get_variable", <<v>>, GetVariableResult(v, ret))
        /\ UNCHANGED state

SetElementMoleFraction ==
    \E s \in ElementInputs, v \in ValueInputs, rc \in RetCodes :
        /\ Record("set_element_mole_fraction", <<s, v>>,
                  SetElementMoleFractionResult(s, v, rc))
        /\ UNCHANGED state

SetElementWeightFraction ==
    \E s \in ElementInputs, v \in ValueInputs, rc \in RetCodes :
        /\ Record("set_element_weight_fraction", <<s, v>>,
                  SetElementWeightFractionResult(s, v, rc))
        /\ UNCHANGED state

SetElementSiteFraction ==
    \E s \in ElementInputs, v \in ValueInputs, rc \in RetCodes :
        /\ Record("set_element_site_fraction", <<s, v>>,
                  SetElementSiteFractionResult(s, v, rc))
        /\ UNCHANGED state

SessionNext ==
    \/ Init_
    \/ ExecuteCommand
    \/ ExecuteCommandNewColine
    \/ CalculateEquilibrium
    \/ SetTemperatureKelvin
    \/ GetVariable
    \/ SetElementMoleFraction
    \/ SetElementWeightFraction
    \/ SetElementSiteFraction

----------------------------------------------------------------------------
(* The locator: MatCalcAPI.__init__ and _find_mc_core_library_file over a  *)
(* small file system.                                                      *)

McCoreText == <<109, 99, 95, 99, 111, 114, 101>>  \* "mc_core"
LibText == <<108, 105, 98>>  \* "lib"
DllText == <<46, 100, 108, 108>>  \* ".dll"
DylibText == <<46, 100, 121, 108, 105, 98>>  \* ".dylib"
SoText == <<46, 115, 111>>  \* ".so"
UnknownOSText == <<85, 110, 107, 110, 111, 119, 110, 32, 79, 83>>  \* "Unknown OS"
WinText == <<119, 105, 110>>  \* "win"
DarwinText == <<100, 97, 114, 119, 105, 110>>  \* "darwin"
LinuxText == <<108, 105, 110, 117, 120>>  \* "linux"
CouldNotFindText == <<67, 111, 117, 108, 100, 32, 110, 111, 116, 32, 102, 105, 110, 100, 32, 109, 99, 95, 99, 111, 114, 101, 32, 108, 105, 98, 114, 97, 114, 121, 32, 102, 105, 108, 101, 32, 105, 110, 32, 39>>  \* "Could not find mc_core library file in '"

\* Values of sys.platform.
Win32Platform == <<119, 105, 110, 51, 50>>  \* "win32"
FreeBsdPlatform == <<102, 114, 101, 101, 98, 115, 100>>  \* "freebsd"
PlatformInputs == {Win32Platform, DarwinText, LinuxText, FreeBsdPlatform}

\* File names that may exist in a directory.
McCoreSo == <<109, 99, 95, 99, 111, 114, 101, 46, 115, 111>>  \* "mc_core.so"
LibMcCoreSo1 == <<108, 105, 98, 109, 99, 95, 99, 111, 114, 101, 46, 115, 111, 46, 49>>  \* "libmc_core.so.1"
McCoreOldSo == <<109, 99, 95, 99, 111, 114, 101, 95, 111, 108, 100, 46, 115, 111>>  \* "mc_core_old.so"
McCoreDll == <<109, 99, 95, 99, 111, 114, 101, 46, 100, 108, 108>>  \* "mc_core.dll"

RootDir == <<>>
ADir == <<DirA>>          \* /a
AADir == <<DirA, DirA>>   \* /a/a

\* The places a file may be at: (directory, name).
Slots ==
    {[dir |-> ADir, name |-> n] : n \in {McCoreSo, LibMcCoreSo1, McCoreOldSo, McCoreDll}}
    \cup {[dir |-> AADir, name |-> McCoreSo]}

\* _get_shared_library_extension
GetSharedLibraryExtension(plat) ==
    IF StartsWith(plat, WinText) THEN DllText
    ELSE IF StartsWith(plat, DarwinText) THEN DylibText
    ELSE IF StartsWith(plat, LinuxText) THEN SoText
    ELSE UnknownOSText

\* Whether a file name matches f"{prefix}mc_core{shlib_suffix}*" for one of
\* the prefixes "" and "lib": the pattern's only wildcard is the last "*".
GlobMatches(plat, name) ==
    \E prefix \in {<<>>, LibText} :
        StartsWith(name, prefix \o McCoreText \o GetSharedLibraryExtension(plat))

\* The directory part and the last name of a path of at least one part.
Parent(p) == SubSeq(p.parts, 1, Len(p.parts) - 1)
Name(p) == p.parts[Len(p.parts)]

\* file.stat().st_size of an absolute path
StatSize(fs, p) == fs[[dir |-> Parent(p), name |-> Name(p)]]

\* matching_files: the resolved paths the two globs find under appdir,
\* read while the working directory is wd.  A directory that does not exist
\* yields nothing.
MatchingFiles(plat, ds, fs, wd, appdir) ==
    LET base == Resolve(wd, appdir)
    IN  IF base.parts \notin ds THEN {}
        ELSE {[abs |-> TRUE, parts |-> Append(base.parts, sl.name)] :
                sl \in {x \in Slots : /\ x.dir = base.parts
                                      /\ fs[x] > 0
                                      /\ GlobMatches(plat, x.name)}}

\* The first element of the sorted list, where the code takes the last.
SmallestFiles(fs, paths) ==
    {f \in paths : \A g \in paths : StatSize(fs, f) <= StatSize(fs, g)}

\* sorted(matching_files, key=st_size).pop(): the last of the files in
\* ascending size.  The set's iteration order decides among files of equal
\* size, so each file of the largest size can be the one returned.
LargestFiles(fs, paths) ==
    {f \in paths : \A g \in paths : StatSize(fs, g) <= StatSize(fs, f)}

NoCtor == [op |-> "none", arg |-> [abs |-> FALSE, parts |-> <<>>], override |-> FALSE,
           cwdBefore |-> [abs |-> TRUE, parts |-> RootDir],
           kind |-> "none", type |-> "", msg |-> <<>>,
           library |-> [abs |-> TRUE, parts |-> <<>>]]

\* _find_mc_core_library_file: the outcomes it can have, each a pair of a
\* kind ("return" with the library, "raise" with the message).
FindMcCoreLibraryFile(plat, ds, fs, wd, appdir) ==
    LET matching_files == MatchingFiles(plat, ds, fs, wd, appdir)
    IN  IF Cardinality(matching_files) = 0
        THEN {[kind |-> "raise", type |-> "ValueError",
               msg |-> CouldNotFindText \o PathStr(appdir) \o QuoteText,
               library |-> NoCtor.library]}
        ELSE {[kind |-> "return", type |-> "", msg |-> <<>>, library |-> f] :
                f \in LargestFiles(fs, matching_files)}

\* Arguments of MatCalcAPI(...): the application directory, or none given
\* (then MATCALC_DIR, then "."), and whether a library file is passed.
AbsA == [abs |-> TRUE, parts |-> ADir]
RelA == [abs |-> FALSE, parts |-> ADir]
RelDot == [abs |-> FALSE, parts |-> <<>>]
AbsAA == [abs |-> TRUE, parts |-> AADir]
CtorDirInputs == {AbsA, RelA, RelDot, AbsAA}
OverrideLibrary == [abs |-> TRUE, parts |-> <<DirA, McCoreOldSo>>]

LocatorInit ==
    /\ platform \in PlatformInputs
    /\ dirs \in {{RootDir, ADir}, {RootDir, ADir, AADir}}
    /\ files \in [Slots -> 0..MaxSize]
    /\ \A sl \in Slots : sl.dir \notin dirs => files[sl] = 0
    /\ cwd = [abs |-> TRUE, parts |-> RootDir]
    /\ ctor = NoCtor

\* MatCalcAPI(application_directory, mc_core_library_file): chdir, then
\* either the given library or the one the locator finds is loaded.
Construct ==
    /\ \E appdir \in CtorDirInputs, override \in BOOLEAN :
        LET target == Resolve(cwd, appdir)
        IN  IF target.parts \notin dirs
            THEN \* os.chdir raises; nothing else runs
                 /\ ctor' = [op |-> "construct", arg |-> appdir, override |-> override,
                             cwdBefore |-> cwd, kind |-> "raise",
                             type |-> "FileNotFoundError", msg |-> <<>>,
                             library |-> NoCtor.library]
                 /\ UNCHANGED cwd
            ELSE /\ cwd' = target
                 /\ IF override
                    THEN ctor' = [op |-> "construct", arg |-> appdir,
                                  override |-> TRUE, cwdBefore |-> cwd,
                                  kind |-> "return", type |-> "", msg |-> <<>>,
                                  library |-> OverrideLibrary]
                    ELSE \E r \in FindMcCoreLibraryFile(platform, dirs, files,
                                                        target, appdir) :
                            ctor' = [op |-> "construct", arg |-> appdir,
                                     override |-> FALSE, cwdBefore |-> cwd,
                                     kind |-> r.kind, type |-> r.type,
                                     msg |-> r.msg, library |-> r.library]
    /\ UNCHANGED <<platform, dirs, files>>
    /\ UNCHANGED <<sessionVars, stdoutVars>>

LocatorNext == Construct

----------------------------------------------------------------------------
(* suppressing_stdout over the process's descriptor table.                 *)

StdoutFd == 1   \* sys.stdout.fileno() of a process whose stdout is a descriptor
Fds == 0..MaxFd

\* The lowest descriptor that is free: what os.open and os.dup return.
LowestFree(t) == CHOOSE fd \in Fds : t[fd] = "closed" /\ \A g \in Fds : g < fd => t[g] # "closed"

\* os.close(fd)
Close(t, fd) == [t EXCEPT ![fd] = "closed"]

\* os.open(os.devnull, os.O_WRONLY): the table after it
OpenDevNull(t) == [t EXCEPT ![LowestFree(t)] = "null"]

\* os.dup2(fd, fd2)
Dup2(t, fd, fd2) == [t EXCEPT ![fd2] = t[fd]]

\* The table after the module's import: os.dup(STDOUT_FILENO)
Dup(t, fd) == [t EXCEPT ![LowestFree(t)] = t[fd]]

NoEnter == [entered |-> FALSE, warned |-> FALSE, error |-> "", tried |-> FALSE]
NoExit == [left |-> FALSE, prior |-> "", how |-> "", after |-> ""]
NoWrite == [written |-> FALSE, depth |-> 0, stream |-> ""]

\* The state after `import pymatcalc.utils`: sys.stdout.fileno() either
\* raises (a notebook) and both globals stay -1, or gives the descriptor,
\* which is duplicated.
StdoutInit ==
    \E stdin \in {"stdin", "closed"}, hasFileno \in BOOLEAN :
        LET t0 == [fd \in Fds |-> IF fd = 0 THEN stdin
                                  ELSE IF fd = StdoutFd THEN "tty"
                                  ELSE IF fd = 2 THEN "stderr"
                                  ELSE "closed"]
        IN  /\ STDOUT_FILENO = IF hasFileno THEN StdoutFd ELSE -1
            /\ STDOUT_DUPLICATE = IF hasFileno THEN LowestFree(t0) ELSE -1
            /\ fds = IF hasFileno THEN Dup(t0, StdoutFd) ELSE t0
            /\ scopes = <<>>
            /\ lastEnter = NoEnter
            /\ lastExit = NoExit
            /\ lastWrite = NoWrite

\* The descriptor table after the code before the yield.
Redirected(t) ==
    LET closed == Close(t, STDOUT_FILENO)
        fd == LowestFree(closed)
    IN  Dup2(OpenDevNull(closed), fd, STDOUT_FILENO)

\* The descriptor table after the finally block.
Restored(t) == Dup2(Close(t, STDOUT_FILENO), STDOUT_DUPLICATE, STDOUT_FILENO)

\* `with suppressing_stdout():` is entered.  Without a descriptor the
\* generator warns and returns before its yield, and contextmanager's
\* __enter__ raises RuntimeError("generator didn't yield"): the body of the
\* with statement does not run.
Enter ==
    /\ Len(scopes) < MaxDepth
    /\ IF STDOUT_FILENO < 0
       THEN /\ lastEnter' = [entered |-> FALSE, warned |-> TRUE,
                             error |-> "RuntimeError", tried |-> TRUE]
            /\ UNCHANGED <<fds, scopes>>
       ELSE /\ fds' = Redirected(fds)
            /\ scopes' = Append(scopes, [prior |-> fds[STDOUT_FILENO]])
            /\ lastEnter' = [entered |-> TRUE, warned |-> FALSE, error |-> "",
                             tried |-> TRUE]
    /\ UNCHANGED <<STDOUT_FILENO, STDOUT_DUPLICATE, lastExit, lastWrite>>
    /\ UNCHANGED <<sessionVars, locatorVars>>

\* The innermost scope is left, its body having returned or raised: the
\* finally block runs either way.
Exit ==
    \E how \in {"return", "raise"} :
        /\ scopes # <<>>
        /\ fds' = Restored(fds)
        /\ scopes' = SubSeq(scopes, 1, Len(scopes) - 1)
        /\ lastExit' = [left |-> TRUE, prior |-> scopes[Len(scopes)].prior,
                        how |-> how, after |-> Restored(fds)[STDOUT_FILENO]]
        /\ UNCHANGED <<STDOUT_FILENO, STDOUT_DUPLICATE, lastEnter, lastWrite>>
        /\ UNCHANGED <<sessionVars, locatorVars>>

\* Something (the native library, print) writes to standard output.
Write ==
    /\ lastWrite' = [written |-> TRUE, depth |-> Len(scopes), stream |-> fds[StdoutFd]]
    /\ UNCHANGED <<STDOUT_FILENO, STDOUT_DUPLICATE, fds, scopes, lastEnter, lastExit>>
    /\ UNCHANGED <<sessionVars, locatorVars>>

StdoutNext ==
    \/ Enter
    \/ Exit
    \/ Write

----------------------------------------------------------------------------
(* The specifications.  Each runs one component; the others stay in their  *)
(* initial state.                                                          *)

SessionIdle ==
    /\ application_directory = RelDot
    /\ call = NoCall
    /\ state = "Uninitialized"
    /\ nCalls = 0
    /\ nRaised = 0

LocatorIdle ==
    /\ platform = LinuxText
    /\ dirs = {RootDir, ADir}
    /\ files = [sl \in Slots |-> 0]
    /\ cwd = [abs |-> TRUE, parts |-> RootDir]
    /\ ctor = NoCtor

StdoutIdle ==
    /\ STDOUT_FILENO = -1
    /\ STDOUT_DUPLICATE = -1
    /\ fds = [fd \in Fds |-> "closed"]
    /\ scopes = <<>>
    /\ lastEnter = NoEnter
    /\ lastExit = NoExit
    /\ lastWrite = NoWrite

InitSession == SessionInit /\ LocatorIdle /\ StdoutIdle
InitLocator == LocatorInit /\ SessionIdle /\ StdoutIdle
InitStdout == StdoutInit /\ SessionIdle /\ LocatorIdle

SpecSession == InitSession /\ [][SessionNext]_vars
SpecLocator == InitLocator /\ [][LocatorNext]_vars
SpecStdout == InitStdout /\ [][StdoutNext]_vars

----------------------------------------------------------------------------
(* Properties.                                                             *)

EnterCompositionXC0002 == <<101, 110, 116, 101, 114, 45, 99, 111, 109, 112, 111, 115, 105, 116, 105, 111, 110, 32, 88, 32, 67, 61, 48, 46, 48, 48, 50>>  \* "enter-composition X C=0.002"
EnterCompositionWMn1em05 == <<101, 110, 116, 101, 114, 45, 99, 111, 109, 112, 111, 115, 105, 116, 105, 111, 110, 32, 87, 32, 77, 110, 61, 49, 101, 45, 48, 53>>  \* "enter-composition W Mn=1e-05"
EnterCompositionUC125 == <<101, 110, 116, 101, 114, 45, 99, 111, 109, 112, 111, 115, 105, 116, 105, 111, 110, 32, 85, 32, 67, 61, 49, 50, 46, 53>>  \* "enter-composition U C=12.5"
EnterCompositionText == <<101, 110, 116, 101, 114, 45, 99, 111, 109, 112, 111, 115, 105, 116, 105, 111, 110, 32>>  \* "enter-composition "
SpaceText == <<32>>

\* A command error as execute_command raises it: a RuntimeError whose
\* message gives the return code right after "Err nr " and quotes the command.
IsCommandError(outcome, rc, cmd) ==
    /\ outcome.kind = "raise"
    /\ outcome.type = "RuntimeError"
    /\ StartsWith(outcome.msg, ErrNrText \o IntToText(rc) \o SpaceText)
    /\ Contains(QuoteText \o cmd \o QuoteText, outcome.msg)

\* C1: execute_command(cmd) and execute_command_new_coline(cmd) each pass the
\* UTF-8 bytes of cmd to their own native entry point, once; they return
\* None exactly when the native return code is 0, and otherwise raise an
\* error that carries that return code and the command text.
C1_ExecuteCommandContract ==
    call.op \in {"execute_command", "execute_command_new_coline"} =>
        LET cmd == call.args[1]
            rc == call.native[1].ret
        IN  /\ Len(call.native) = 1
            /\ call.native[1].fn =
                 (IF call.op = "execute_command"
                  THEN "MCCOL_ProcessCommandLineInput"
                  ELSE "MCCOL_ProcessCommandLineInputNewColine")
            /\ call.native[1].args = <<Utf8Encode(cmd)>>
            /\ (cmd = CafeText => call.native[1].args[1] = <<195, 169>>)
            /\ (cmd = SelectElementC => call.native[1].args[1] = cmd)
            /\ (rc = 0 <=> call.outcome = ReturnNone)
            /\ (rc # 0 => IsCommandError(call.outcome, rc, cmd))

\* A rejected command sent through the new-coline entry point.
C1_Witness ==
    /\ call.op = "execute_command_new_coline"
    /\ call.args[1] = CafeText
    /\ call.native[1].ret = 17
    /\ call.outcome.kind = "raise"

\* C2: init() calls the native initialize entry point with the application
\* directory and TRUE, then sends 'set-working-directory ./' and
\* 'set-application-directory <dir>' in that order, and fails with a command
\* error when either of the two gets a nonzero return code.
C2_InitPropagatesBootstrapFailure ==
    call.op = "init" =>
        /\ Len(call.native) >= 1
        /\ call.native[1].fn = "MCC_InitializeExternalConstChar"
        /\ call.native[1].args = <<Utf8Encode(PathStr(application_directory)), TRUE>>
        /\ \A i \in 2..Len(call.native) :
              /\ call.native[i].fn = "MCCOL_ProcessCommandLineInput"
              /\ call.native[i].args[1] =
                    Utf8Encode(IF i = 2 THEN SetWorkingDirectoryText
                               ELSE SetApplicationDirectoryText
                                    \o PathStr(application_directory))
              /\ (call.native[i].ret # 0 =>
                    IsCommandError(call.outcome, call.native[i].ret,
                                   IF i = 2 THEN SetWorkingDirectoryText
                                   ELSE SetApplicationDirectoryText
                                        \o PathStr(application_directory)))

\* The mode letter of a composition setter.
ModeLetter(op) ==
    IF op = "set_element_mole_fraction" THEN <<88>>
    ELSE IF op = "set_element_weight_fraction" THEN <<87>>
    ELSE <<85>>

\* C7: each composition setter sends exactly one command
\* 'enter-composition <MODE> s=v', MODE being X, W or U, through
\* execute_command, and raises execute_command's error on a nonzero code.
C7_CompositionSetters ==
    call.op \in {"set_element_mole_fraction", "set_element_weight_fraction",
                 "set_element_site_fraction"} =>
        LET s == call.args[1]
            v == call.args[2]
            rc == call.native[1].ret
            cmd == EnterCompositionText \o ModeLetter(call.op) \o SpaceText
                   \o s \o EqualsText \o FloatRepr(v)
        IN  /\ Len(call.native) = 1
            /\ call.native[1].fn = "MCCOL_ProcessCommandLineInput"
            /\ call.native[1].args = <<Utf8Encode(cmd)>>
            /\ call.outcome = ExecuteCommandResult(cmd, rc).outcome
            /\ (rc = 0 <=> call.outcome = ReturnNone)
            /\ (rc # 0 => IsCommandError(call.outcome, rc, cmd))
            /\ (call.op = "set_element_mole_fraction" /\ s = ElementC /\ v = Float0002
                  => call.native[1].args[1] = EnterCompositionXC0002)
            /\ (call.op = "set_element_weight_fraction" /\ s = ElementMn /\ v = Float1em05
                  => call.native[1].args[1] = EnterCompositionWMn1em05)
            /\ (call.op = "set_element_site_fraction" /\ s = ElementC /\ v = Float125
                  => call.native[1].args[1] = EnterCompositionUC125)

\* The weight-fraction setter rejected by the native library.
C7_Witness ==
    /\ call.op = "set_element_weight_fraction"
    /\ call.args[1] = ElementMn
    /\ call.args[2] = Float1em05
    /\ call.native[1].ret = -1
    /\ call.outcome.kind = "raise"

\* Whether every native call of an init() reported success.
InitSucceeded(c) ==
    /\ c.op = "init"
    /\ c.outcome.kind = "return"
    /\ c.native[1].ret = TRUE
    /\ \A i \in 2..Len(c.native) : c.native[i].ret = 0

\* C8: the session is Uninitialized after construction and becomes
\* Initialized on, and only on, an init() call that succeeded: one whose
\* native initialize call returned true and whose bootstrap commands
\* returned 0.  No other call changes the state.
C8_InitializedOnlyBySuccessfulInit ==
    [][/\ (state = "Uninitialized" /\ InitSucceeded(call') /\ nCalls' = nCalls + 1
             => state' = "Initialized")
       /\ (state' # state
             => state = "Uninitialized" /\ state' = "Initialized"
                /\ InitSucceeded(call'))]_vars

\* The native entry point of a forwarding call.
EntryPoint(op) ==
    CASE op = "execute_command" -> "MCCOL_ProcessCommandLineInput"
      [] op = "execute_command_new_coline" -> "MCCOL_ProcessCommandLineInputNewColine"
      [] op = "calculate_equilibrium" -> "MCC_CalcEquilibrium"
      [] op = "set_temperature_kelvin" -> "MCC_SetTemperature"
      [] op = "get_variable" -> "MCC_GetMCVariable"

\* C9: whatever was called before and however it ended, a call of
\* execute_command, execute_command_new_coline, calculate_equilibrium,
\* set_temperature_kelvin or get_variable invokes its native entry point
\* exactly once, and its outcome is decided by that invocation's result alone.
C9_OneNativeCallPerCall ==
    call.op \in {"execute_command", "execute_command_new_coline",
                 "calculate_equilibrium", "set_temperature_kelvin", "get_variable"} =>
        /\ Len(call.native) = 1
        /\ call.native[1].fn = EntryPoint(call.op)
        /\ nRaised <= nCalls
        /\ CASE call.op = "set_temperature_kelvin" -> call.outcome = ReturnNone
             [] call.op = "get_variable" -> call.outcome = ReturnValue(call.native[1].ret)
             [] OTHER -> /\ (call.native[1].ret = 0 => call.outcome = ReturnNone)
                         /\ (call.native[1].ret # 0 =>
                               /\ call.outcome.kind = "raise"
                               /\ StartsWith(call.outcome.msg,
                                             ErrNrText \o IntToText(call.native[1].ret)
                                             \o SpaceText))

\* A call that succeeds after two earlier calls raised.
C9_Witness ==
    /\ nRaised = 2
    /\ nCalls = 3
    /\ call.op = "execute_command"
    /\ call.outcome = ReturnNone

\* The files of directory d (an absolute path) that exist and whose names
\* match the platform's library pattern.
LibrariesIn(d) ==
    {sl \in Slots : sl.dir = d.parts /\ files[sl] > 0 /\ GlobMatches(platform, sl.name)}

\* The absolute path of a file.
SlotPath(sl) == [abs |-> TRUE, parts |-> Append(sl.dir, sl.name)]

\* The last construction changed directory and ran the locator.
LocatorRan ==
    /\ ctor.op = "construct"
    /\ ~ctor.override
    /\ Resolve(ctor.cwdBefore, ctor.arg).parts \in dirs

\* C5: a Session constructed on an application directory, given as an
\* absolute or as a relative path, that contains exactly one file matching
\* the library pattern loads that file, named by its absolute path, and does
\* not fail with 'library not found'.
C5_SingleLibraryFound ==
    LocatorRan =>
        LET d == Resolve(ctor.cwdBefore, ctor.arg)
        IN  \A sl \in Slots :
                LibrariesIn(d) = {sl} =>
                    /\ ctor.kind = "return"
                    /\ ctor.library = SlotPath(sl)

\* The directory the locator's globs read: application_directory as the
\* process sees it once the constructor has changed directory.
Searched == Resolve(cwd, ctor.arg)

\* C6: when more than one file of the searched directory matches the library
\* pattern and their sizes differ pairwise, the locator returns the path of
\* the largest; when none matches, it fails with an error that names the
\* directory.
C6_LargestLibraryChosen ==
    LocatorRan =>
        LET libs == LibrariesIn(Searched)
        IN  /\ (/\ Cardinality(libs) > 1
                /\ \A a \in libs, b \in libs : a # b => files[a] # files[b])
                 => /\ ctor.kind = "return"
                    /\ \E sl \in libs :
                          /\ ctor.library = SlotPath(sl)
                          /\ \A o \in libs : files[o] <= files[sl]
            /\ libs = {}
                 => /\ ctor.kind = "raise"
                    /\ ctor.type = "ValueError"
                    /\ Contains(QuoteText \o PathStr(ctor.arg) \o QuoteText, ctor.msg)

\* Two libraries of different sizes in /a, the smaller one named mc_core.so.
C6_Witness ==
    /\ LocatorRan
    /\ Searched = AbsA
    /\ Cardinality(LibrariesIn(Searched)) = 2
    /\ files[[dir |-> ADir, name |-> McCoreSo]] = 1
    /\ files[[dir |-> ADir, name |-> LibMcCoreSo1]] = 2
    /\ ctor.kind = "return"
    /\ ctor.library = [abs |-> TRUE, parts |-> <<DirA, LibMcCoreSo1>>]

\* C3: when a suppressing_stdout scope is left, by return or by exception,
\* the standard-output descriptor refers again to the stream it referred to
\* right before that scope was entered; nested scopes included.
C3_ExitRestoresPriorStream ==
    lastExit.left => lastExit.after = lastExit.prior

\* C4: while at least one suppressing_stdout scope is active, the
\* standard-output descriptor points at the null sink and a write is not
\* observed; a write is observed only when no scope is active.
C4_SuppressedWhileActive ==
    STDOUT_FILENO >= 0 =>
        /\ (Len(scopes) > 0 => fds[StdoutFd] = "null")
        /\ (lastWrite.written =>
              (lastWrite.depth > 0 <=> lastWrite.stream = "null"))

\* C10: without a standard-output descriptor (STDOUT_FILENO = -1), entering
\* a suppressing_stdout scope warns, touches no descriptor, runs the body
\* and raises nothing of its own.
C10_NoDescriptorStillRunsBody ==
    (STDOUT_FILENO < 0 /\ lastEnter.tried) =>
        /\ lastEnter.warned
        /\ fds[StdoutFd] = "tty"
        /\ lastEnter.entered
        /\ lastEnter.error = ""

============================================================================
